---- MODULE Spec2Model ----
(***************************************************************************)
(* Model of the chunk embedding pipeline of curs-etl.                      *)
(*                                                                         *)
(*   Spec       BatchEmbeddingProcessor.process_chunks_advanced            *)
(*              (utils/embeddings/batch_processor.py) running its group    *)
(*              handlers on the asyncio event loop, with                   *)
(*              YandexEmbeddingClient.get_embeddings_batch                 *)
(*              (utils/embeddings/yandex_client.py) inside each handler.   *)
(*   SpecEmbed  one YandexEmbeddingClient.get_embedding call with its      *)
(*              retry loop.                                                *)
(*                                                                         *)
(* A step of a coroutine is what asyncio runs without suspension: from one *)
(* await that really suspends to the next.                                 *)
(*                                                                         *)
(* A text is a sequence of characters.  A chunk object is identified by    *)
(* its position in the input list; the output list holds references to     *)
(* chunk objects, so it is a sequence of such positions and the vectors    *)
(* live in the function `vector`.                                          *)
(***************************************************************************)
EXTENDS Integers, Sequences, FiniteSets, TLC

\* ------------------------------------------------------------------ bounds
MaxChunks == 3
MaxBatchSize == 2
MaxConcurrent == 2
MaxRetries == 3
MaxSegments == 3
MaxSpaces == 2
MaxPages == 3
MaxLimit == 2

VARIABLES
    \* ---- process_chunks_advanced
    chunks,                  \* the input list: chunks[i] is chunk i's text
    vector,                  \* vector[i]: chunk i's vector field
    batch_size,              \* config.batch_size
    max_concurrent_batches,  \* config.max_concurrent_batches
    delay_between_batches,   \* config.delay_between_batches
    progress_callback,       \* config.progress_callback is set
    semaphore,               \* the value of the asyncio.Semaphore
    pc,                      \* pc[g]: where group g's handler stands
    group_result,            \* group_result[g]: how group g's handler ended
    call,                    \* call[i]: chunk i's get_embedding call
    processed_chunks,        \* the output list (references to chunks)
    total_stats,             \* the EmbeddingStats accumulator
    hook_calls,              \* arguments of the progress hook's invocations
    returned,                \* process_chunks_advanced has returned
    aborted,                 \* the exception process_chunks_advanced ended in
    \* ---- get_embedding
    text,                    \* the argument
    max_retries,             \* config.max_retries
    attempt,                 \* the loop variable
    epc,                     \* where the call stands
    responses,               \* what each request sent so far ended in
    sleeps,                  \* the backoff waits taken so far
    result,                  \* what the call returned, or the error raised
    \* ---- get_embeddings_batch called on its own (texts: those of chunks,
    \*      its get_embedding calls: call)
    bpc,                     \* where the batch call stands
    tasks,                   \* the (original index, task) list, by its indexes
    batch_ret,               \* what the batch call returned
    \* ---- ChunkBuilder / TextSplitter
    doc_text,                \* text: the document text handed to the operation
    payload,                 \* payload: the ChunkPayload of the document
    bop,                     \* the operation called on the document
    bst,                     \* "start" before the call, "done" after it
    run,                     \* which ingestion run of the document this is
    raw,                     \* what self._splitter.split_text gave for text
    split_ret,               \* what TextSplitter.split returned or raised
    splitter_calls,          \* calls of TextSplitter.split so far
    built,                   \* what the builder returned or raised
    first_built,             \* what the first ingestion run returned
    \* ---- EmbeddingProcessor.process_chunks (chunks, vector, batch_size and
    \*      call as above)
    spc,                     \* where process_chunks stands
    seq_i,                   \* i, the loop variable: the offset of the batch
    updated_chunks,          \* the output list (references to chunks)
    seq_stats,               \* stats, its EmbeddingStats
    \* ---- ConfluenceClient
    space_keys,              \* config.space_keys
    source_pages,            \* the source: how many pages each space holds
    limit,                   \* pagination.limit
    pag_max_retries,         \* pagination.max_retries
    cpc,                     \* where get_all_pages stands
    space_idx,               \* the position in space_keys the loop is at
    all_pages,               \* all_pages of get_all_pages
    failed_spaces,           \* failed_spaces, by position in space_keys
    space_pages,             \* all_pages of the running get_space_pages
    start,                   \* start of the running get_space_pages
    fetch_attempt,           \* attempt of the running _fetch_pages_batch
    offsets,                 \* offsets[k]: the starts fetched for space k
    space_ret,               \* space_ret[k]: what get_space_pages ended in
    \* ---- chunks/schema.py, chunks/qdrant_io.py
    store_chunk,             \* chunk: the schema Chunk (fields and extra)
    payload_overrides,       \* payload_overrides of upsert_chunk
    point_id,                \* point_id of upsert_chunk
    store_op,                \* the function called
    store_pc,                \* "start" before the call, "done" after it
    store_payload,           \* the payload returned, or that of the point upserted
    store_pid                \* the point id upsert_chunk returned

coordVars == <<chunks, vector, batch_size, max_concurrent_batches,
               delay_between_batches, progress_callback, semaphore, pc,
               group_result, call, processed_chunks, total_stats, hook_calls,
               returned, aborted>>
embedVars == <<text, max_retries, attempt, epc, responses, sleeps, result>>
batchVars == <<bpc, tasks, batch_ret>>
buildVars == <<doc_text, payload, bop, bst, run, raw, split_ret,
               splitter_calls, built, first_built>>
seqVars == <<spc, seq_i, updated_chunks, seq_stats>>
confVars == <<space_keys, source_pages, limit, pag_max_retries, cpc,
              space_idx, all_pages, failed_spaces, space_pages, start,
              fetch_attempt, offsets, space_ret>>
storeVars == <<store_chunk, payload_overrides, point_id, store_op, store_pc,
               store_payload, store_pid>>
vars == <<coordVars, embedVars, batchVars, buildVars, seqVars, confVars,
          storeVars>>

\* What an action of one component leaves alone of the others.
outsideCoord == <<embedVars, batchVars, buildVars, seqVars,
                  confVars, storeVars>>
outsideEmbed == <<coordVars, batchVars, buildVars, seqVars,
                  confVars, storeVars>>
outsideBuild == <<coordVars, embedVars, batchVars, seqVars,
                  confVars, storeVars>>
outsideConf == <<coordVars, embedVars, batchVars, buildVars, seqVars,
                 storeVars>>
outsideStore == <<coordVars, embedVars, batchVars, buildVars, seqVars,
                  confVars>>

\* ------------------------------------------------------------------- texts
\* str.strip() removes leading and trailing whitespace.
Whitespace == {" ", "\n"}

RECURSIVE LStrip(_)
LStrip(s) ==
    IF s # <<>> /\ Head(s) \in Whitespace THEN LStrip(Tail(s)) ELSE s

RECURSIVE RStrip(_)
RStrip(s) ==
    IF s # <<>> /\ s[Len(s)] \in Whitespace
    THEN RStrip(SubSeq(s, 1, Len(s) - 1)) ELSE s

Strip(s) == RStrip(LStrip(s))

\* `not text or not text.strip()`
IsBlankNoStrip(s) == s = <<>>
IsBlank(s) == s = <<>> \/ Strip(s) = <<>>

\* The remote model: the request carries text.strip(); the same text gives the
\* same embedding and different texts give different embeddings.  A vector is
\* represented by the text it embeds; the empty vector is <<>>.
EmptyVector == <<>>
ServiceEmbedding(s) == <<Strip(s)>>
ServiceTokens(s) == Len(Strip(s))

Min(a, b) == IF a < b THEN a ELSE b

RECURSIVE SumSeq(_)
SumSeq(s) == IF s = <<>> THEN 0 ELSE Head(s) + SumSeq(Tail(s))

\* --------------------------------------------------------------- batching
\* batches = [(i, chunks[i:i + batch_size]) for i in range(0, len, batch_size)]
\* A negative step gives an empty range; a zero step makes range() raise.
NumBatches(n, bs) == IF bs <= 0 THEN 0 ELSE (n + bs - 1) \div bs
BatchOfOverlapping(g, n, bs) ==
    [k \in 1..(Min(g * bs + 1, n) - (g - 1) * bs) |-> (g - 1) * bs + k]
BatchOf(g, n, bs) ==
    [k \in 1..(Min(g * bs, n) - (g - 1) * bs) |-> (g - 1) * bs + k]
Groups == 1..NumBatches(Len(chunks), batch_size)
Batch(g) == BatchOf(g, Len(chunks), batch_size)
Members(g) == {Batch(g)[k] : k \in DOMAIN Batch(g)}

\* ------------------------------------------------------ get_embeddings_batch
\* valid_texts: the positions of the texts that are not blank.
ValidTextsAll(batch) == DOMAIN batch
ValidTexts(batch) == {k \in DOMAIN batch : ~IsBlank(chunks[batch[k]])}

\* results[original_index] is the call's result or None; the return value keeps
\* only the results that are not None, in position order.
None == <<>>

RECURSIVE FilterNone(_)
FilterNone(results) ==
    IF results = <<>> THEN <<>>
    ELSE IF Head(results) = None THEN FilterNone(Tail(results))
    ELSE <<Head(results)>> \o FilterNone(Tail(results))

\* tasks: one (i, get_embedding(text)) per valid text, in input order.
TaskIndexes(batch) ==
    SelectSeq([k \in DOMAIN batch |-> k], LAMBDA k : k \in ValidTexts(batch))

BatchResults(batch, calls) ==
    FilterNone([k \in DOMAIN batch |->
        IF k \in ValidTexts(batch) /\ calls[batch[k]] = "ok"
        THEN <<ServiceEmbedding(chunks[batch[k]]), ServiceTokens(chunks[batch[k]])>>
        ELSE None])

\* ------------------------------------------------------------- the handler
\* asyncio.Semaphore: acquire() passes while the value is positive; the tasks
\* are created in group order and waiters are woken first in, first out.
CanAcquireNoLimit(g) == \A h \in Groups : h < g => pc[h] # "waiting"
CanAcquire(g) ==
    /\ semaphore > 0
    /\ \A h \in Groups : h < g => pc[h] # "waiting"

\* for chunk, (embedding, num_tokens) in zip(batch, embeddings_results)
Zipped(batch, results) == Min(Len(batch), Len(results))

ApplyVectors(batch, results) ==
    [i \in DOMAIN vector |->
        IF \E k \in 1..Zipped(batch, results) : batch[k] = i
        THEN results[CHOOSE k \in 1..Zipped(batch, results) : batch[k] = i][1]
        ELSE vector[i]]

ApplyStatsStale(batch, results) ==
    LET n == Zipped(batch, results) IN
    [total_stats EXCEPT
        !.processed_chunks = n,
        !.total_tokens = SumSeq([k \in 1..n |-> results[k][2]]),
        !.total_characters = SumSeq([k \in 1..n |-> Len(chunks[batch[k]])])]
ApplyStats(batch, results) ==
    LET n == Zipped(batch, results) IN
    [total_stats EXCEPT
        !.processed_chunks = @ + n,
        !.total_tokens = @ + SumSeq([k \in 1..n |-> results[k][2]]),
        !.total_characters = @ + SumSeq([k \in 1..n |-> Len(chunks[batch[k]])])]

\* progress_callback(len(processed_chunks), len(chunks)), out being the output
\* list at that moment.
HookArgumentsOfBatch(out) == <<Len(out) - Len(processed_chunks), Len(chunks)>>
HookArguments(out) == <<Len(out), Len(chunks)>>

\* except Exception as e: what the try block raises is caught in the handler.
HandlerCatchesNothing == FALSE
HandlerCatches == TRUE

\* except Exception: for chunk in batch: append, failed_chunks += 1
AppendUnembeddedNothing(out, batch) == out
AppendUnembedded(out, batch) == out \o batch

CountFailed(stats, batch) == [stats EXCEPT !.failed_chunks = @ + Len(batch)]

\* ------------------------------------------------------------------- Init
\* Chunk i's text is blank (empty, or whitespace only) or a word of its own.
Word(i) == [k \in 1..i |-> "a"]
BlankText(i) == IF i % 2 = 1 THEN <<" ">> ELSE <<>>
ChunkTexts(i) == {BlankText(i), Word(i)}

StoreIdle ==
    /\ store_chunk = <<>>
    /\ payload_overrides = <<>>
    /\ point_id = <<>>
    /\ store_op = "none"
    /\ store_pc = "idle"
    /\ store_payload = <<>>
    /\ store_pid = <<>>

ConfIdle ==
    /\ space_keys = <<>>
    /\ source_pages = <<>>
    /\ limit = 1
    /\ pag_max_retries = 0
    /\ cpc = "idle"
    /\ space_idx = 0
    /\ all_pages = <<>>
    /\ failed_spaces = <<>>
    /\ space_pages = <<>>
    /\ start = 0
    /\ fetch_attempt = 0
    /\ offsets = <<>>
    /\ space_ret = <<>>

NoStats ==
    [total_chunks |-> 0, processed_chunks |-> 0, failed_chunks |-> 0,
     total_tokens |-> 0, total_characters |-> 0]

SeqIdle ==
    /\ spc = "idle"
    /\ seq_i = 0
    /\ updated_chunks = <<>>
    /\ seq_stats = NoStats

BuildIdle ==
    /\ doc_text = <<>>
    /\ payload = <<>>
    /\ bop = "none"
    /\ bst = "idle"
    /\ run = 0
    /\ raw = <<"None">>
    /\ split_ret = <<"None">>
    /\ splitter_calls = 0
    /\ built = <<"None">>
    /\ first_built = <<"None">>

BatchIdle ==
    /\ bpc = "idle"
    /\ tasks = <<>>
    /\ batch_ret = <<"None">>

EmbedIdle ==
    /\ text = <<>>
    /\ max_retries = 0
    /\ attempt = 0
    /\ epc = "idle"
    /\ responses = <<>>
    /\ sleeps = <<>>
    /\ result = <<"None">>

Init ==
    /\ \E n \in 0..MaxChunks :
         chunks \in {c \in [1..n -> UNION {ChunkTexts(i) : i \in 1..n}] :
                        \A i \in 1..n : c[i] \in ChunkTexts(i)}
    /\ vector = [i \in DOMAIN chunks |-> EmptyVector]
    /\ batch_size \in -1..MaxBatchSize
    /\ max_concurrent_batches \in 0..MaxConcurrent
    /\ delay_between_batches \in {0, 1}
    /\ progress_callback \in BOOLEAN
    /\ semaphore = max_concurrent_batches
    /\ pc = [g \in 1..NumBatches(Len(chunks), batch_size) |-> "waiting"]
    /\ group_result = [g \in 1..NumBatches(Len(chunks), batch_size) |-> "none"]
    /\ call = [i \in DOMAIN chunks |-> "none"]
    /\ processed_chunks = <<>>
    /\ total_stats = [total_chunks |-> Len(chunks), processed_chunks |-> 0,
                      failed_chunks |-> 0, total_tokens |-> 0,
                      total_characters |-> 0]
    /\ hook_calls = <<>>
    /\ returned = FALSE
    /\ aborted = "no"
    /\ EmbedIdle
    /\ BatchIdle
    /\ BuildIdle
    /\ SeqIdle
    /\ ConfIdle
    /\ StoreIdle

\* ---------------------------------------------------------------- actions
\* async with semaphore; get_embeddings_batch creates one get_embedding call
\* per valid text and awaits them all.  With no valid text it returns [] at
\* once; BatchReturn models the rest of the handler.
Acquire(g) ==
    /\ ~returned
    /\ pc[g] = "waiting"
    /\ CanAcquire(g)
    /\ semaphore' = semaphore - 1
    /\ pc' = [pc EXCEPT ![g] = "calling"]
    /\ call' = [i \in DOMAIN call |->
                  IF \E k \in ValidTexts(Batch(g)) : Batch(g)[k] = i
                  THEN "inflight" ELSE call[i]]
    /\ UNCHANGED <<chunks, vector, batch_size, max_concurrent_batches,
                   delay_between_batches, progress_callback, group_result,
                   processed_chunks, total_stats, hook_calls, returned,
                   aborted, outsideCoord>>

\* The batch call of group g raises instead (a client whose batch call fails,
\* a text that is no string): no get_embedding call is issued.
AcquireFailing(g) ==
    /\ ~returned
    /\ pc[g] = "waiting"
    /\ CanAcquire(g)
    /\ semaphore' = semaphore - 1
    /\ pc' = [pc EXCEPT ![g] = "raising"]
    /\ UNCHANGED <<chunks, vector, batch_size, max_concurrent_batches,
                   delay_between_batches, progress_callback, group_result, call,
                   processed_chunks, total_stats, hook_calls, returned,
                   aborted, outsideCoord>>

\* One get_embedding call ends: it returns a result or raises (SpecEmbed).
CallEnds(i) ==
    /\ call[i] = "inflight"
    /\ \E r \in {"ok", "failed"} : call' = [call EXCEPT ![i] = r]
    /\ UNCHANGED <<chunks, vector, batch_size, max_concurrent_batches,
                   delay_between_batches, progress_callback, semaphore, pc,
                   group_result, processed_chunks, total_stats, hook_calls,
                   returned, aborted, outsideCoord>>

\* The except branch, then the semaphore's release.
BatchRaise(g) ==
    /\ pc[g] = "raising"
    /\ IF HandlerCatches
       THEN /\ processed_chunks' = AppendUnembedded(processed_chunks, Batch(g))
            /\ total_stats' = CountFailed(total_stats, Batch(g))
            /\ group_result' = [group_result EXCEPT ![g] = "raised"]
       ELSE /\ group_result' = [group_result EXCEPT ![g] = "escaped"]
            /\ UNCHANGED <<processed_chunks, total_stats>>
    /\ pc' = [pc EXCEPT ![g] = "done"]
    /\ semaphore' = semaphore + 1
    /\ UNCHANGED <<chunks, vector, batch_size, max_concurrent_batches,
                   delay_between_batches, progress_callback, call, hook_calls,
                   returned, aborted, outsideCoord>>

\* gather has every result: get_embeddings_batch returns and the handler runs
\* to its next suspension: the zip loop, the progress hook, then the sleep or,
\* when the hook raises, the except branch and the release.
BatchReturn(g) ==
    /\ pc[g] = "calling"
    /\ \A i \in Members(g) : call[i] # "inflight"
    /\ LET batch == Batch(g)
           results == BatchResults(batch, call)
           out == processed_chunks \o SubSeq(batch, 1, Zipped(batch, results))
           stats == ApplyStats(batch, results)
       IN
       /\ vector' = ApplyVectors(batch, results)
       /\ \/ \* no hook, or the hook returns
             /\ hook_calls' = IF progress_callback
                              THEN Append(hook_calls, HookArguments(out))
                              ELSE hook_calls
             /\ processed_chunks' = out
             /\ total_stats' = stats
             /\ group_result' = [group_result EXCEPT ![g] = "ok"]
             /\ IF delay_between_batches > 0
                THEN /\ pc' = [pc EXCEPT ![g] = "sleeping"]
                     /\ UNCHANGED semaphore
                ELSE /\ pc' = [pc EXCEPT ![g] = "done"]
                     /\ semaphore' = semaphore + 1
          \/ \* the hook raises
             /\ progress_callback
             /\ hook_calls' = Append(hook_calls, HookArguments(out))
             /\ IF HandlerCatches
                THEN /\ processed_chunks' = AppendUnembedded(out, batch)
                     /\ total_stats' = CountFailed(stats, batch)
                     /\ group_result' = [group_result EXCEPT ![g] = "hook_raised"]
                ELSE /\ processed_chunks' = out
                     /\ total_stats' = stats
                     /\ group_result' = [group_result EXCEPT ![g] = "escaped"]
             /\ pc' = [pc EXCEPT ![g] = "done"]
             /\ semaphore' = semaphore + 1
    /\ UNCHANGED <<chunks, batch_size, max_concurrent_batches,
                   delay_between_batches, progress_callback, call, returned,
                   aborted, outsideCoord>>

\* asyncio.sleep(delay_between_batches) ends; the semaphore is released.
Wake(g) ==
    /\ pc[g] = "sleeping"
    /\ pc' = [pc EXCEPT ![g] = "done"]
    /\ semaphore' = semaphore + 1
    /\ UNCHANGED <<chunks, vector, batch_size, max_concurrent_batches,
                   delay_between_batches, progress_callback, group_result, call,
                   processed_chunks, total_stats, hook_calls, returned,
                   aborted, outsideCoord>>

\* range(0, len(chunks), 0) raises ValueError while the batches are built;
\* an empty input has returned before.
RangeRaises == chunks # <<>> /\ batch_size = 0

\* gather(*tasks, return_exceptions=True) has every handler's result (for an
\* empty input: the early return of [] and EmbeddingStats(0, 0, 0, 0, 0)).
Return ==
    /\ ~returned
    /\ aborted = "no"
    /\ ~RangeRaises
    /\ \A g \in Groups : pc[g] = "done"
    /\ returned' = TRUE
    /\ UNCHANGED <<chunks, vector, batch_size, max_concurrent_batches,
                   delay_between_batches, progress_callback, semaphore, pc,
                   group_result, call, processed_chunks, total_stats,
                   hook_calls, aborted, outsideCoord>>

\* The ValueError of range() leaves process_chunks_advanced.
RaiseValueError ==
    /\ ~returned
    /\ aborted = "no"
    /\ RangeRaises
    /\ aborted' = "ValueError"
    /\ UNCHANGED <<chunks, vector, batch_size, max_concurrent_batches,
                   delay_between_batches, progress_callback, semaphore, pc,
                   group_result, call, processed_chunks, total_stats,
                   hook_calls, returned, outsideCoord>>

\* The caller cancels the task that awaits gather (task.cancel(), a timeout of
\* asyncio.wait_for): gather cancels every handler that has not finished, the
\* CancelledError is no Exception, so no except branch runs; each handler
\* leaves `async with semaphore`, and the CancelledError leaves
\* process_chunks_advanced.
Cancel ==
    /\ ~returned
    /\ aborted = "no"
    /\ \E g \in Groups : pc[g] # "done"
    /\ aborted' = "CancelledError"
    /\ pc' = [g \in DOMAIN pc |-> IF pc[g] = "done" THEN "done" ELSE "cancelled"]
    /\ call' = [i \in DOMAIN call |->
                  IF call[i] = "inflight" THEN "cancelled" ELSE call[i]]
    /\ semaphore' = semaphore
          + Cardinality({g \in Groups : pc[g] \in {"calling", "raising", "sleeping"}})
    /\ UNCHANGED <<chunks, vector, batch_size, max_concurrent_batches,
                   delay_between_batches, progress_callback, group_result,
                   processed_chunks, total_stats, hook_calls, returned,
                   outsideCoord>>

\* The steps of process_chunks_advanced itself.
Step ==
    \/ \E g \in Groups : Acquire(g)
    \/ \E g \in Groups : AcquireFailing(g)
    \/ \E i \in DOMAIN chunks : CallEnds(i)
    \/ \E g \in Groups : BatchRaise(g)
    \/ \E g \in Groups : BatchReturn(g)
    \/ \E g \in Groups : Wake(g)
    \/ Return
    \/ RaiseValueError

Next == Step \/ Cancel

Spec == Init /\ [][Next]_vars

\* ------------------------------------------------------------ get_embedding
\* What a request can end in: a 200 response with a well-formed body, a 200
\* response whose body has no usable "embedding", a response with another
\* status, asyncio.TimeoutError, aiohttp.ClientError.
Responses == {"ok", "malformed", "status", "timeout", "network"}

\* for attempt in range(max_retries)
RetryRangeOneMore(m) == 0..m
RetryRange(m) == 0..(m - 1)

\* if attempt == max_retries - 1: raise
IsLastAttempt(a, m) == a = m - 1

\* wait_time = 2 ** attempt
BackoffWaitConstant(a) == 1
BackoffWait(a) == 2 ^ a

\* The except clause a failed request lands in, by the error it raises at the
\* last attempt.  The API error of a non-200 response and the KeyError of a
\* malformed body are raised inside the try and land in `except Exception`.
ErrorAfterRetries(r) ==
    CASE r = "timeout" -> "Request timeout after all retries"
      [] r = "network" -> "Network error after all retries"
      [] OTHER -> "Unexpected error"

EmbedTexts == {<<>>, <<" ">>, <<"a">>, <<" ", "a", "b", "\n">>}

CoordHandlersIdle ==
    /\ max_concurrent_batches = 1
    /\ delay_between_batches = 0
    /\ progress_callback = FALSE
    /\ semaphore = 1
    /\ pc = <<>>
    /\ group_result = <<>>
    /\ processed_chunks = <<>>
    /\ total_stats = [total_chunks |-> 0, processed_chunks |-> 0,
                      failed_chunks |-> 0, total_tokens |-> 0,
                      total_characters |-> 0]
    /\ hook_calls = <<>>
    /\ returned = FALSE
    /\ aborted = "no"

CoordRestIdle ==
    /\ vector = <<>>
    /\ batch_size = 1
    /\ CoordHandlersIdle

CoordIdle ==
    /\ chunks = <<>>
    /\ call = <<>>
    /\ CoordRestIdle

InitEmbed ==
    /\ text \in EmbedTexts
    /\ max_retries \in 0..MaxRetries
    /\ attempt = 0
    /\ epc = "start"
    /\ responses = <<>>
    /\ sleeps = <<>>
    /\ result = <<"None">>
    /\ CoordIdle
    /\ BatchIdle
    /\ BuildIdle
    /\ SeqIdle
    /\ ConfIdle
    /\ StoreIdle

RequestsSent == Len(responses) + (IF epc = "request" THEN 1 ELSE 0)

\* The call starts: the blank check, then the first iteration's request (or,
\* with an empty range, the raise after the loop).
Enter ==
    /\ epc = "start"
    /\ IF IsBlank(text)
       THEN /\ epc' = "raised"
            /\ result' = <<"raise", "Text cannot be empty">>
       ELSE IF 0 \in RetryRange(max_retries)
       THEN /\ epc' = "request"
            /\ UNCHANGED result
       ELSE /\ epc' = "raised"
            /\ result' = <<"raise", "Failed after all retries">>
    /\ UNCHANGED <<text, max_retries, attempt, responses, sleeps, outsideEmbed>>

\* The request of this attempt ends in r.
Respond(r) ==
    /\ epc = "request"
    /\ responses' = Append(responses, r)
    /\ IF r = "ok"
       THEN /\ epc' = "returned"
            /\ result' = <<"return", ServiceEmbedding(text), ServiceTokens(text)>>
            /\ UNCHANGED <<attempt, sleeps>>
       ELSE IF IsLastAttempt(attempt, max_retries)
       THEN /\ epc' = "raised"
            /\ result' = <<"raise", ErrorAfterRetries(r)>>
            /\ UNCHANGED <<attempt, sleeps>>
       ELSE IF attempt < max_retries - 1
       THEN /\ epc' = "backoff"
            /\ sleeps' = Append(sleeps, BackoffWait(attempt))
            /\ UNCHANGED <<attempt, result>>
       ELSE IF attempt + 1 \in RetryRange(max_retries)
       THEN /\ epc' = "request"
            /\ attempt' = attempt + 1
            /\ UNCHANGED <<sleeps, result>>
       ELSE /\ epc' = "raised"
            /\ result' = <<"raise", "Failed after all retries">>
            /\ UNCHANGED <<attempt, sleeps>>
    /\ UNCHANGED <<text, max_retries, outsideEmbed>>

\* asyncio.sleep(wait_time) ends: the next iteration sends its request, or the
\* loop is over.
BackoffEnds ==
    /\ epc = "backoff"
    /\ IF attempt + 1 \in RetryRange(max_retries)
       THEN /\ epc' = "request"
            /\ attempt' = attempt + 1
            /\ UNCHANGED result
       ELSE /\ epc' = "raised"
            /\ result' = <<"raise", "Failed after all retries">>
            /\ UNCHANGED attempt
    /\ UNCHANGED <<text, max_retries, responses, sleeps, outsideEmbed>>

NextEmbed ==
    \/ Enter
    \/ \E r \in Responses : Respond(r)
    \/ BackoffEnds

SpecEmbed == InitEmbed /\ [][NextEmbed]_vars

\* ----------------------------------------------------- get_embeddings_batch
\* The call on its own: texts is the list of the texts of chunks, and call[i]
\* is the get_embedding task of texts[i].
BatchTexts(i) == {<<>>, <<" ">>, Word(i)}
AllTexts == [k \in DOMAIN chunks |-> k]

InitBatch ==
    /\ \E n \in 0..MaxChunks :
         chunks \in {c \in [1..n -> UNION {BatchTexts(i) : i \in 1..n}] :
                        \A i \in 1..n : c[i] \in BatchTexts(i)}
    /\ call = [i \in DOMAIN chunks |-> "none"]
    /\ bpc = "start"
    /\ tasks = <<>>
    /\ batch_ret = <<"None">>
    /\ CoordRestIdle
    /\ EmbedIdle
    /\ BuildIdle
    /\ SeqIdle
    /\ ConfIdle
    /\ StoreIdle

\* if not texts: return []; if not valid_texts: return []; else one task per
\* valid text, all awaited by gather(return_exceptions=True).
BatchEnter ==
    /\ bpc = "start"
    /\ IF chunks = <<>> \/ ValidTexts(AllTexts) = {}
       THEN /\ bpc' = "returned"
            /\ batch_ret' = <<"return", <<>>>>
            /\ UNCHANGED <<tasks, call>>
       ELSE /\ bpc' = "gathering"
            /\ tasks' = TaskIndexes(AllTexts)
            /\ call' = [i \in DOMAIN call |->
                          IF i \in ValidTexts(AllTexts) THEN "inflight" ELSE call[i]]
            /\ UNCHANGED batch_ret
    /\ UNCHANGED <<chunks, vector, batch_size, max_concurrent_batches,
                   delay_between_batches, progress_callback, semaphore, pc,
                   group_result, processed_chunks, total_stats, hook_calls,
                   returned, aborted, embedVars, buildVars, seqVars, confVars,
                   storeVars>>

\* gather has every task's result or exception: the results are indexed back
\* and those that are not None returned.
BatchGathered ==
    /\ bpc = "gathering"
    /\ \A i \in DOMAIN call : call[i] # "inflight"
    /\ bpc' = "returned"
    /\ batch_ret' = <<"return", BatchResults(AllTexts, call)>>
    /\ UNCHANGED <<coordVars, embedVars, tasks, buildVars, seqVars, confVars,
                   storeVars>>

NextBatch ==
    \/ BatchEnter
    \/ \E i \in DOMAIN chunks : CallEnds(i)
    \/ BatchGathered

SpecBatch == InitBatch /\ [][NextBatch]_vars

\* ------------------------------------------------- TextSplitter, ChunkBuilder
\* Document texts: empty, whitespace only, plain, and one with whitespace
\* around it.
DocTexts == {<<>>, <<" ">>, <<"a">>, <<" ", "a", "b", "\n">>}

\* ChunkPayload: source, id_in_source and metadata stand for the document-level
\* fields, all copied unchanged into every chunk.
Payloads ==
    [source : {"confluence"}, id_in_source : {"p1", "p2"},
     metadata : {"None", "meta"}]

\* RecursiveCharacterTextSplitter.split_text is library code: for a text it
\* gives some list of segments, blank ones not excluded, or raises.
Segments == {<<" ">>, <<"a">>, <<" ", "b", " ">>}
SegLists == UNION {[1..n -> Segments] : n \in 0..MaxSegments}
SplitTextOutcomes == {<<"raise">>} \cup {<<"return", segs>> : segs \in SegLists}

\* [chunk for chunk in chunks if chunk.strip()]
SplitFilterKeepAll(segs) == segs
SplitFilter(segs) == SelectSeq(segs, LAMBDA c : Strip(c) # <<>>)

\* TextSplitter.split(text), given what split_text does for text.
TextSplitterSplit(t, outcome) ==
    IF IsBlank(t) THEN <<"return", <<>>>>
    ELSE IF outcome[1] = "raise" THEN <<"raise", "TextSplittingError">>
    ELSE <<"return", SplitFilter(outcome[2])>>

\* Chunk.id: str(uuid.uuid4()), a random value per constructed Chunk.
Uuids == {"u1", "u2"}

\* ChunkIDGenerator.generate_deterministic_id: uuid5 of the name
\* "source|id_in_source|chunk_index" (uuid5 taken as injective on the name).
\* No builder calls it.
generate_deterministic_id(source, id_in_source, chunk_index) ==
    source \o <<"|">> \o id_in_source \o <<"|">> \o <<chunk_index>>

\* metadata=payload.metadata or {}
MetadataOf(p) == IF p.metadata = "None" THEN "{}" ELSE p.metadata

\* Chunk(...) as the builders construct it: id and vector take their defaults.
MakeChunk(p, id, t, idx, count) ==
    [id |-> id, vector |-> EmptyVector, source |-> p.source,
     id_in_source |-> p.id_in_source, text |-> t, chunk_index |-> idx,
     chunk_count |-> count, metadata |-> MetadataOf(p)]

\* enumerate(raw_chunks): the index of the k-th element.
EnumerateIndexOneBased(k) == k
EnumerateIndex(k) == k - 1

\* The loop of build_chunks over raw_chunks; ids[k] is the uuid4 drawn for the
\* k-th of them.
BuiltChunks(raw_chunks, p, ids) ==
    LET kept == SelectSeq([k \in DOMAIN raw_chunks |-> k],
                          LAMBDA k : Strip(raw_chunks[k]) # <<>>)
    IN  [j \in DOMAIN kept |->
            MakeChunk(p, ids[kept[j]], Strip(raw_chunks[kept[j]]),
                      EnumerateIndex(kept[j]), Len(raw_chunks))]

\* if not text or not text.strip(): the guard of both builders.
BuilderRejectsEmptyOnly(t) == t = <<>>
BuilderRejects(t) == IsBlank(t)

InitBuild ==
    /\ doc_text \in DocTexts
    /\ payload \in Payloads
    /\ bop \in {"build_chunks", "build_single_chunk", "split"}
    /\ bst = "start"
    /\ run = 1
    /\ raw = <<"None">>
    /\ split_ret = <<"None">>
    /\ splitter_calls = 0
    /\ built = <<"None">>
    /\ first_built = <<"None">>
    /\ CoordIdle
    /\ EmbedIdle
    /\ BatchIdle
    /\ SeqIdle
    /\ ConfIdle
    /\ StoreIdle

\* What split_text gives for doc_text: anything on the first call, the same
\* again on a later one (the library is deterministic).
OutcomesNow == IF raw = <<"None">> THEN SplitTextOutcomes ELSE {raw}

\* TextSplitter.split(text) called directly.
Split ==
    /\ bop = "split" /\ bst = "start"
    /\ splitter_calls' = splitter_calls + 1
    /\ \E o \in (IF IsBlank(doc_text) THEN {raw} ELSE OutcomesNow) :
         /\ raw' = o
         /\ split_ret' = TextSplitterSplit(doc_text, o)
    /\ bst' = "done"
    /\ UNCHANGED <<doc_text, payload, bop, run, built, first_built, outsideBuild>>

\* ChunkBuilder.build_chunks(text, payload)
BuildChunks ==
    /\ bop = "build_chunks" /\ bst = "start"
    /\ IF BuilderRejects(doc_text)
       THEN /\ built' = <<"return", <<>>>>
            /\ UNCHANGED <<raw, split_ret, splitter_calls>>
       ELSE /\ splitter_calls' = splitter_calls + 1
            /\ \E o \in OutcomesNow :
                 LET r == TextSplitterSplit(doc_text, o)
                 IN  /\ raw' = o
                     /\ split_ret' = r
                     /\ IF r[1] = "raise"
                        THEN built' = r
                        ELSE \E ids \in [DOMAIN r[2] -> Uuids] :
                               built' = <<"return", BuiltChunks(r[2], payload, ids)>>
    /\ bst' = "done"
    /\ UNCHANGED <<doc_text, payload, bop, run, first_built, outsideBuild>>

\* ChunkBuilder.build_single_chunk(text, payload); the one Chunk it returns is
\* held as a one-element list.
BuildSingleChunk ==
    /\ bop = "build_single_chunk" /\ bst = "start"
    /\ IF BuilderRejects(doc_text)
       THEN built' = <<"raise", "ValueError">>
       ELSE \E id \in Uuids :
              built' = <<"return",
                         <<MakeChunk(payload, id, Strip(doc_text), 0, 1)>>>>
    /\ bst' = "done"
    /\ UNCHANGED <<doc_text, payload, bop, run, raw, split_ret, splitter_calls,
                   first_built, outsideBuild>>

\* The document is ingested again: build_chunks is called a second time with
\* the same text and payload.
Reingest ==
    /\ bop = "build_chunks" /\ bst = "done" /\ run = 1
    /\ run' = 2
    /\ first_built' = built
    /\ built' = <<"None">>
    /\ bst' = "start"
    /\ UNCHANGED <<doc_text, payload, bop, raw, split_ret, splitter_calls,
                   outsideBuild>>

NextBuild ==
    \/ Split
    \/ BuildChunks
    \/ BuildSingleChunk
    \/ Reingest

SpecBuild == InitBuild /\ [][NextBuild]_vars

\* ------------------------------------------- EmbeddingProcessor.process_chunks
\* The sequential processor: one batch after the other, no semaphore, no hook.
\* self.batch_size is batch_size; it is taken positive here (what a
\* non-positive one does to range() is the same as in process_chunks_advanced).
InitSeq ==
    /\ \E n \in 0..MaxChunks :
         chunks \in {c \in [1..n -> UNION {ChunkTexts(i) : i \in 1..n}] :
                        \A i \in 1..n : c[i] \in ChunkTexts(i)}
    /\ vector = [i \in DOMAIN chunks |-> EmptyVector]
    /\ batch_size \in 1..MaxBatchSize
    /\ call = [i \in DOMAIN chunks |-> "none"]
    /\ spc = "loop"
    /\ seq_i = 0
    /\ updated_chunks = <<>>
    /\ seq_stats = [NoStats EXCEPT !.total_chunks = Len(chunks)]
    /\ CoordHandlersIdle
    /\ EmbedIdle
    /\ BatchIdle
    /\ BuildIdle
    /\ ConfIdle
    /\ StoreIdle

\* batch = chunks[i:i + self.batch_size]
SeqBatch == BatchOf(seq_i \div batch_size + 1, Len(chunks), batch_size)

\* The zip loop's updates of stats.
SeqApplyStats(batch, results) ==
    LET n == Zipped(batch, results) IN
    [seq_stats EXCEPT
        !.processed_chunks = @ + n,
        !.total_tokens = @ + SumSeq([k \in 1..n |-> results[k][2]]),
        !.total_characters = @ + SumSeq([k \in 1..n |-> Len(chunks[batch[k]])])]

seqRest == <<chunks, batch_size, max_concurrent_batches, delay_between_batches,
             progress_callback, semaphore, pc, group_result, processed_chunks,
             total_stats, hook_calls, returned, aborted, embedVars, batchVars,
             buildVars, confVars, storeVars>>

\* The loop takes its next batch and awaits get_embeddings_batch, which
\* creates one get_embedding call per valid text.
SeqCall ==
    /\ spc = "loop"
    /\ seq_i < Len(chunks)
    /\ spc' = "calling"
    /\ call' = [i \in DOMAIN call |->
                  IF \E k \in ValidTexts(SeqBatch) : SeqBatch[k] = i
                  THEN "inflight" ELSE call[i]]
    /\ UNCHANGED <<vector, seq_i, updated_chunks, seq_stats, seqRest>>

\* The batch call raises instead: no get_embedding call is issued.
SeqCallFailing ==
    /\ spc = "loop"
    /\ seq_i < Len(chunks)
    /\ spc' = "raising"
    /\ UNCHANGED <<vector, call, seq_i, updated_chunks, seq_stats, seqRest>>

\* get_embeddings_batch returns: the zip loop, then the next iteration.
SeqBatchReturn ==
    /\ spc = "calling"
    /\ \A k \in DOMAIN SeqBatch : call[SeqBatch[k]] # "inflight"
    /\ LET results == BatchResults(SeqBatch, call) IN
       /\ vector' = ApplyVectors(SeqBatch, results)
       /\ updated_chunks' =
             updated_chunks \o SubSeq(SeqBatch, 1, Zipped(SeqBatch, results))
       /\ seq_stats' = SeqApplyStats(SeqBatch, results)
    /\ seq_i' = seq_i + batch_size
    /\ spc' = "loop"
    /\ UNCHANGED <<call, seqRest>>

\* The except branch, then the next iteration.
SeqBatchRaise ==
    /\ spc = "raising"
    /\ updated_chunks' = AppendUnembedded(updated_chunks, SeqBatch)
    /\ seq_stats' = CountFailed(seq_stats, SeqBatch)
    /\ seq_i' = seq_i + batch_size
    /\ spc' = "loop"
    /\ UNCHANGED <<vector, call, seqRest>>

\* The loop is over (or the input was empty): return updated_chunks, stats.
SeqReturn ==
    /\ spc = "loop"
    /\ seq_i >= Len(chunks)
    /\ spc' = "returned"
    /\ UNCHANGED <<vector, call, seq_i, updated_chunks, seq_stats, seqRest>>

NextSeq ==
    \/ SeqCall
    \/ SeqCallFailing
    \/ \E i \in DOMAIN chunks : CallEnds(i)
    \/ SeqBatchReturn
    \/ SeqBatchRaise
    \/ SeqReturn

SpecSeq == InitSeq /\ [][NextSeq]_vars

\* ------------------------------------------------------------ ConfluenceClient
\* get_all_pages with get_space_pages and _fetch_pages_batch inside it.  A
\* space key is a text; a page is <<space key, its number in the space>>; an
\* entry of space_keys is identified by its position.  The source holds
\* source_pages[key] pages in a space and get_all_pages_from_space(key, start,
\* limit) gives those numbered start+1 .. start+limit that exist, or raises.
KeyA == <<"A">>
KeyB == <<"B">>
SpaceKeys == {KeyA, KeyB, <<" ">>}

SourceBatch(key, st, lim) ==
    [j \in 1..(Min(st + lim, source_pages[key]) - st) |-> <<key, st + j>>]

\* if len(pages) < self.pagination.limit: break
ShortBatchNever(pages, lim) == FALSE
ShortBatch(pages, lim) == Len(pages) < lim

\* start += self.pagination.limit
NextStart(st, lim) == st + lim

\* except ConfluenceAPIError: ... continue
AfterFailureStop(idx) == Len(space_keys) + 1
AfterFailure(idx) == idx + 1

InitConf ==
    /\ space_keys \in UNION {[1..n -> SpaceKeys] : n \in 0..MaxSpaces}
    /\ source_pages \in [{KeyA, KeyB} -> 0..MaxPages]
    /\ limit \in 1..MaxLimit
    /\ pag_max_retries \in 0..MaxRetries
    /\ cpc = "loop"
    /\ space_idx = 1
    /\ all_pages = <<>>
    /\ failed_spaces = <<>>
    /\ space_pages = <<>>
    /\ start = 0
    /\ fetch_attempt = 0
    /\ offsets = [k \in DOMAIN space_keys |-> <<>>]
    /\ space_ret = [k \in DOMAIN space_keys |-> <<"None">>]
    /\ CoordIdle
    /\ EmbedIdle
    /\ BatchIdle
    /\ BuildIdle
    /\ SeqIdle
    /\ StoreIdle

confConfig == <<space_keys, source_pages, limit, pag_max_retries>>

\* get_space_pages returns pages to get_all_pages, which extends all_pages
\* and goes on to the next space.
SpaceReturns(pages) ==
    /\ space_ret' = [space_ret EXCEPT ![space_idx] = <<"return", pages>>]
    /\ all_pages' = all_pages \o pages
    /\ space_idx' = space_idx + 1
    /\ cpc' = "loop"

\* The loop of get_all_pages takes the next space key and calls
\* get_space_pages, which returns [] for a blank key.
SpaceEnter ==
    /\ cpc = "loop"
    /\ space_idx <= Len(space_keys)
    /\ IF IsBlank(space_keys[space_idx])
       THEN /\ SpaceReturns(<<>>)
            /\ UNCHANGED <<space_pages, start, fetch_attempt>>
       ELSE /\ cpc' = "fetch"
            /\ space_pages' = <<>>
            /\ start' = 0
            /\ fetch_attempt' = 0
            /\ UNCHANGED <<space_idx, all_pages, space_ret>>
    /\ UNCHANGED <<confConfig, failed_spaces, offsets, outsideConf>>

\* The starts fetched so far for the running space, with this one.
Logged ==
    [offsets EXCEPT ![space_idx] = IF fetch_attempt = 0 THEN Append(@, start) ELSE @]

\* _fetch_pages_batch with an empty range(max_retries): return [] without a
\* request; get_space_pages takes it for an empty batch.
FetchNothing ==
    /\ cpc = "fetch"
    /\ fetch_attempt \notin RetryRange(pag_max_retries)
    /\ SpaceReturns(space_pages)
    /\ UNCHANGED <<confConfig, failed_spaces, space_pages, start, fetch_attempt,
                   offsets, outsideConf>>

\* The request of this attempt returns its pages.
FetchReturns ==
    /\ cpc = "fetch"
    /\ fetch_attempt \in RetryRange(pag_max_retries)
    /\ offsets' = Logged
    /\ LET pages == SourceBatch(space_keys[space_idx], start, limit) IN
       IF pages = <<>>
       THEN /\ SpaceReturns(space_pages)
            /\ UNCHANGED <<space_pages, start, fetch_attempt>>
       ELSE IF ShortBatch(pages, limit)
       THEN /\ SpaceReturns(space_pages \o pages)
            /\ UNCHANGED <<space_pages, start, fetch_attempt>>
       ELSE /\ space_pages' = space_pages \o pages
            /\ start' = NextStart(start, limit)
            /\ fetch_attempt' = 0
            /\ UNCHANGED <<cpc, space_idx, all_pages, space_ret>>
    /\ UNCHANGED <<confConfig, failed_spaces, outsideConf>>

\* The request of this attempt raises: the next attempt, or at the last one
\* the error leaves _fetch_pages_batch, get_space_pages wraps it in
\* ConfluenceAPIError and get_all_pages notes the space as failed.
FetchRaises ==
    /\ cpc = "fetch"
    /\ fetch_attempt \in RetryRange(pag_max_retries)
    /\ offsets' = Logged
    /\ IF IsLastAttempt(fetch_attempt, pag_max_retries)
       THEN /\ space_ret' = [space_ret EXCEPT ![space_idx] =
                                <<"raise", "ConfluenceAPIError">>]
            /\ failed_spaces' = Append(failed_spaces, space_idx)
            /\ space_idx' = AfterFailure(space_idx)
            /\ cpc' = "loop"
            /\ UNCHANGED fetch_attempt
       ELSE /\ fetch_attempt' = fetch_attempt + 1
            /\ UNCHANGED <<cpc, space_idx, failed_spaces, space_ret>>
    /\ UNCHANGED <<confConfig, all_pages, space_pages, start, outsideConf>>

\* The loop over space_keys is over: return all_pages.
AllReturn ==
    /\ cpc = "loop"
    /\ space_idx > Len(space_keys)
    /\ cpc' = "returned"
    /\ UNCHANGED <<confConfig, space_idx, all_pages, failed_spaces, space_pages,
                   start, fetch_attempt, offsets, space_ret, outsideConf>>

NextConf ==
    \/ SpaceEnter
    \/ FetchNothing
    \/ FetchReturns
    \/ FetchRaises
    \/ AllReturn

\* The calls are synchronous: the code runs on until it returns, and a request
\* to the source returns or raises.
SpecConf == InitConf /\ [][NextConf]_vars /\ WF_vars(NextConf)

\* ------------------------------------------ chunk_to_payload, upsert_chunk
\* A dict is a function from its keys; None and the empty dict, both falsy,
\* are the function with no key.  A field's value is "None" or a text.
StandardKeys ==
    {"source_type", "source_id", "document_id", "chunk_id", "title", "url",
     "text", "mime", "language", "created_at", "updated_at", "tags"}
RequiredKeys == {"source_type", "source_id", "document_id", "chunk_id", "text"}

PartialFunctions(K, V) == UNION {[D -> V] : D \in SUBSET K}

\* The chunks: the required fields set, title set or None, the other optional
\* fields None (so str(url) and isoformat() are not exercised); extra with
\* keys that collide with standard ones and one that does not.
StoreChunks ==
    {[fields |-> [k \in StandardKeys |->
                     IF k \in RequiredKeys THEN "v"
                     ELSE IF k = "title" THEN t ELSE "None"],
      extra |-> e] :
        t \in {"None", "T"},
        e \in PartialFunctions({"text", "title", "color"}, {"None", "e"})}

\* build_point_id: uuid5 of the name "document_id:chunk_id" (uuid5 taken as
\* injective on the name).
build_point_id(document_id, chunk_id) == <<document_id, ":", chunk_id>>

chunk_to_payload(chunk) ==
    LET keys == StandardKeys \cup DOMAIN chunk.extra
        payload_ == [k \in keys |->
                       IF k \in StandardKeys THEN chunk.fields[k]
                       ELSE chunk.extra[k]]
    IN  [k \in {kk \in keys : payload_[kk] # "None"} |-> payload_[k]]

\* payload.update(payload_overrides)
DictUpdate(p, o) ==
    [k \in DOMAIN p \cup DOMAIN o |-> IF k \in DOMAIN o THEN o[k] ELSE p[k]]

InitStore ==
    /\ store_chunk \in StoreChunks
    /\ payload_overrides \in PartialFunctions({"text", "note"}, {"o"})
    /\ point_id \in {<<>>, <<"custom">>}
    /\ store_op \in {"chunk_to_payload", "upsert_chunk"}
    /\ store_pc = "start"
    /\ store_payload = <<>>
    /\ store_pid = <<>>
    /\ CoordIdle
    /\ EmbedIdle
    /\ BatchIdle
    /\ BuildIdle
    /\ SeqIdle
    /\ ConfIdle

ChunkToPayload ==
    /\ store_op = "chunk_to_payload" /\ store_pc = "start"
    /\ store_payload' = chunk_to_payload(store_chunk)
    /\ store_pc' = "done"
    /\ UNCHANGED <<store_chunk, payload_overrides, point_id, store_op,
                   store_pid, outsideStore>>

\* upsert_chunk: the point is built and sent; client.upsert returns, or raises
\* and the error leaves upsert_chunk.
UpsertChunk ==
    /\ store_op = "upsert_chunk" /\ store_pc = "start"
    /\ LET pid == IF point_id # <<>> THEN point_id
                  ELSE build_point_id(store_chunk.fields["document_id"],
                                      store_chunk.fields["chunk_id"])
           payload_ == chunk_to_payload(store_chunk)
       IN  /\ store_payload' = IF DOMAIN payload_overrides # {}
                               THEN DictUpdate(payload_, payload_overrides)
                               ELSE payload_
           /\ \/ store_pc' = "done" /\ store_pid' = pid
              \/ store_pc' = "raised" /\ UNCHANGED store_pid
    /\ UNCHANGED <<store_chunk, payload_overrides, point_id, store_op,
                   outsideStore>>

NextStore ==
    \/ ChunkToPayload
    \/ UpsertChunk

SpecStore == InitStore /\ [][NextStore]_vars

\* ================================================================== claims
Occurrences(i) == Cardinality({k \in DOMAIN processed_chunks : processed_chunks[k] = i})
Holders == {g \in Groups : pc[g] \in {"calling", "raising", "sleeping"}}
SizeOfGroups(S) ==
    SumSeq([g \in 1..NumBatches(Len(chunks), batch_size) |->
               IF g \in S THEN Len(Batch(g)) ELSE 0])
CallsIn(r) == {i \in DOMAIN chunks : call[i] = r}

\* A run in which only individual get_embedding calls fail: no progress hook,
\* no blank text, no batch call that raises.
OnlyCallFailures ==
    /\ ~progress_callback
    /\ \A i \in DOMAIN chunks : ~IsBlank(chunks[i])
    /\ \A g \in Groups : group_result[g] # "raised"

\* C1: after process_chunks_advanced returns, the output holds each input
\* chunk exactly once (same length as the input), whatever calls failed.
C1_EachChunkExactlyOnce ==
    (returned /\ OnlyCallFailures) =>
        /\ Len(processed_chunks) = Len(chunks)
        /\ \A i \in DOMAIN chunks : Occurrences(i) = 1

\* C2: after process_chunks_advanced returns,
\* processed_chunks + failed_chunks = total_chunks = the input length.
C2_CountersAddUp ==
    (returned /\ OnlyCallFailures) =>
        /\ total_stats.total_chunks = Len(chunks)
        /\ total_stats.processed_chunks + total_stats.failed_chunks
              = total_stats.total_chunks

\* C3: when every get_embedding call of a group fails, each chunk of the group
\* is in the output with an empty vector and failed_chunks counts them all.
AllCallsFailed == {g \in Groups : \A i \in Members(g) : call[i] = "failed"}
C3_FailedGroupKept ==
    (returned /\ OnlyCallFailures) =>
        /\ \A g \in AllCallsFailed : \A i \in Members(g) :
              Occurrences(i) >= 1 /\ vector[i] = EmptyVector
        /\ total_stats.failed_chunks >= SizeOfGroups(AllCallsFailed)

\* C4: a group whose batch call raised has each of its chunks in the output
\* exactly once with an empty vector, every failed group adds exactly its
\* chunk count to failed_chunks, and when the other groups embed all their
\* chunks the run ends with processed_chunks = the chunks of the other groups,
\* failed_chunks = the chunks of the raised groups and every chunk in the
\* output.
Raised == {g \in Groups : group_result[g] = "raised"}
HookRaised == {g \in Groups : group_result[g] = "hook_raised"}
C4_GroupFailureKeepsChunks ==
    /\ \A g \in Raised : \A i \in Members(g) :
          Occurrences(i) = 1 /\ vector[i] = EmptyVector
    /\ total_stats.failed_chunks = SizeOfGroups(Raised \cup HookRaised)
    /\ (/\ returned
        /\ Raised # {}
        /\ \A g \in Groups \ Raised :
              group_result[g] = "ok" /\ \A i \in Members(g) : call[i] = "ok")
       => /\ total_stats.processed_chunks = SizeOfGroups(Groups \ Raised)
          /\ total_stats.failed_chunks = SizeOfGroups(Raised)
          /\ Len(processed_chunks) = Len(chunks)

\* The scenario scaled down: three chunks in groups of two, the second group
\* alone fails.
C4_Witness ==
    /\ returned
    /\ Len(chunks) = 3 /\ batch_size = 2
    /\ group_result = <<"ok", "raised">>
    /\ total_stats.processed_chunks = 2
    /\ total_stats.failed_chunks = 1
    /\ Len(processed_chunks) = 3

\* C5: the groups holding a concurrency slot, and so the groups with a batch
\* call outstanding, never number more than max_concurrent_batches.
C5_ConcurrencyBound ==
    /\ Cardinality(Holders) <= max_concurrent_batches
    /\ Cardinality({g \in Groups : pc[g] = "calling"}) <= max_concurrent_batches
    /\ semaphore = max_concurrent_batches - Cardinality(Holders)

\* Every slot is taken and a further group waits.
C5_Witness ==
    /\ max_concurrent_batches = 2
    /\ Cardinality({g \in Groups : pc[g] = "calling"}) = 2
    /\ \E g \in Groups : pc[g] = "waiting"

\* C6: a vector set on a chunk is the embedding of that chunk's own text.
C6_VectorOfOwnText ==
    \A i \in DOMAIN chunks :
        vector[i] # EmptyVector => vector[i] = ServiceEmbedding(chunks[i])

\* C7: exactly the chunks whose call failed have an empty vector and are
\* counted as failed; the siblings whose call succeeded have their vector and
\* are counted as processed.
C7_FailureContained ==
    (returned /\ OnlyCallFailures) =>
        /\ \A i \in DOMAIN chunks :
              /\ call[i] = "failed" => vector[i] = EmptyVector
              /\ call[i] = "ok" => vector[i] # EmptyVector
        /\ total_stats.failed_chunks = Cardinality(CallsIn("failed"))
        /\ total_stats.processed_chunks = Cardinality(CallsIn("ok"))

\* C8: a response with a non-success status ends get_embedding at once: no
\* further request, no backoff sleep; answered so on the first request, one
\* request is all that is sent.
C8_StatusErrorNotRetried ==
    \A k \in DOMAIN responses :
        responses[k] = "status" =>
            /\ epc = "raised"
            /\ Len(responses) = k
            /\ Len(sleeps) = k - 1
            /\ k = 1 => RequestsSent = 1 /\ sleeps = <<>>

\* C9: never more than max_retries requests; when every attempt times out or
\* hits a network error, exactly max_retries requests are sent and the call
\* raises the error of the last one; a successful attempt is the last attempt
\* and its result is what the call returns.
Transient == {"timeout", "network"}
AllTransient == \A k \in DOMAIN responses : responses[k] \in Transient
C9_BoundedRetries ==
    /\ RequestsSent <= max_retries
    /\ (AllTransient /\ Len(responses) = max_retries /\ epc # "start"
           /\ ~IsBlank(text))
       => /\ epc = "raised"
          /\ result = <<"raise",
                IF responses = <<>> THEN "Failed after all retries"
                ELSE ErrorAfterRetries(responses[Len(responses)])>>
    /\ (AllTransient /\ epc = "raised" /\ ~IsBlank(text))
       => RequestsSent = max_retries
    /\ \A k \in DOMAIN responses :
          responses[k] = "ok" =>
              /\ k = Len(responses)
              /\ epc = "returned"
              /\ result = <<"return", ServiceEmbedding(text), ServiceTokens(text)>>
    /\ epc = "returned" =>
          responses # <<>> /\ responses[Len(responses)] = "ok"

\* Three attempts, each a timeout or a network error, then the terminal error.
C9_Witness ==
    /\ max_retries = 3
    /\ responses = <<"timeout", "network", "timeout">>
    /\ epc = "raised"
    /\ result = <<"raise", "Request timeout after all retries">>

\* C10: for a blank text get_embedding raises its invalid-input error with no
\* request sent, no retry iteration and no sleep.
C10_BlankTextRejected ==
    Strip(text) = <<>> =>
        /\ epc \in {"start", "raised"}
        /\ RequestsSent = 0
        /\ attempt = 0
        /\ sleeps = <<>>
        /\ epc = "raised" => result = <<"raise", "Text cannot be empty">>

\* A whitespace-only text has been refused.
C10_Witness ==
    /\ text = <<" ">>
    /\ max_retries > 0
    /\ epc = "raised"
    /\ result = <<"raise", "Text cannot be empty">>

\* C11: get_embeddings_batch issues one get_embedding call for each text that
\* is not blank and none for a blank one, returns the results of exactly the
\* calls that succeeded in the order of their texts' positions, and does not
\* raise when calls fail.
Succeeded == {i \in DOMAIN chunks : call[i] = "ok"}
NthSucceeded(k) ==
    CHOOSE i \in Succeeded : Cardinality({j \in Succeeded : j < i}) = k - 1
C11_BatchCallsAndResults ==
    /\ bpc \in {"start", "gathering", "returned"}
    /\ bpc # "start" =>
          \A i \in DOMAIN chunks :
              /\ Cardinality({k \in DOMAIN tasks : tasks[k] = i})
                    = (IF Strip(chunks[i]) = <<>> THEN 0 ELSE 1)
              /\ (call[i] # "none") = (Strip(chunks[i]) # <<>>)
    /\ (bpc = "gathering" /\ \A i \in DOMAIN call : call[i] # "inflight")
          => ENABLED BatchGathered
    /\ bpc = "returned" =>
          /\ batch_ret[1] = "return"
          /\ Len(batch_ret[2]) = Cardinality(Succeeded)
          /\ \A k \in DOMAIN batch_ret[2] :
                batch_ret[2][k] = <<ServiceEmbedding(chunks[NthSucceeded(k)]),
                                    ServiceTokens(chunks[NthSucceeded(k)])>>

\* A call failed before one that succeeded, a blank text got no call, and the
\* batch call returned.
C11_Witness ==
    /\ bpc = "returned"
    /\ \E i, j \in DOMAIN chunks : i < j /\ call[i] = "failed" /\ call[j] = "ok"
    /\ \E i \in DOMAIN chunks : chunks[i] = <<" ">> /\ call[i] = "none"
    /\ Len(batch_ret[2]) = 1

\* C12: an exception of the progress hook changes nothing: with every call
\* successful and the hook raising or not, the run returns each chunk once,
\* all counted as processed and none as failed.
C12_HookFailureHarmless ==
    (/\ returned
     /\ Raised = {}
     /\ \A i \in DOMAIN chunks : call[i] = "ok")
    => /\ \A i \in DOMAIN chunks : Occurrences(i) = 1
       /\ total_stats.processed_chunks = Len(chunks)
       /\ total_stats.failed_chunks = 0

\* C13: embedding failures never make process_chunks_advanced raise: it
\* raises only the ValueError of a zero batch_size, before any call; no
\* handler lets an exception of its try block escape; once every handler is
\* done the function returns; and the failures of groups are what
\* failed_chunks reports.
EmbeddingFailure ==
    \/ \E i \in DOMAIN chunks : call[i] = "failed"
    \/ \E g \in Groups : group_result[g] \in {"raised", "hook_raised", "escaped"}
C14_AlwaysCompletes ==
    returned \/ aborted # "no" \/ ENABLED Step

\* C15: a cancelled run still hands back a result: the completed chunks, with
\* every chunk that was not processed counted as failed.
C15_CancelKeepsResult ==
    aborted = "CancelledError" =>
        /\ returned
        /\ total_stats.processed_chunks + total_stats.failed_chunks
              = total_stats.total_chunks

\* C16: a constructed coordinator has a positive batch_size and a positive
\* max_concurrent_batches.
C16_InvalidConfigRejected ==
    batch_size > 0 /\ max_concurrent_batches > 0

\* C17: two ingestion runs that build the chunks of the same document (same
\* text, same payload) give the chunk at each chunk_index the same id.
C17_SameIdsOnReingest ==
    (/\ bop = "build_chunks" /\ run = 2 /\ bst = "done"
     /\ first_built[1] = "return" /\ built[1] = "return")
      => /\ Len(built[2]) = Len(first_built[2])
         /\ \A k \in DOMAIN built[2] :
               /\ built[2][k].chunk_index = first_built[2][k].chunk_index
               /\ built[2][k].id = first_built[2][k].id

\* C18: the chunks build_chunks returns have chunk_index 0, 1, ..., n-1 in
\* their order, chunk_count n, and all carry the document's id_in_source and
\* payload fields.
C18_IndexesAndCounts ==
    (bop = "build_chunks" /\ bst = "done" /\ built[1] = "return")
      => \A k \in DOMAIN built[2] :
            /\ built[2][k].chunk_index = k - 1
            /\ built[2][k].chunk_count = Len(built[2])
            /\ 0 <= built[2][k].chunk_index
            /\ built[2][k].chunk_index < built[2][k].chunk_count
            /\ built[2][k].source = payload.source
            /\ built[2][k].id_in_source = payload.id_in_source
            /\ built[2][k].metadata = built[2][1].metadata

\* Several chunks were built from a split that had a blank segment in it.
C18_Witness ==
    /\ bop = "build_chunks" /\ bst = "done" /\ built[1] = "return"
    /\ Len(built[2]) >= 2
    /\ raw[1] = "return" /\ Len(raw[2]) > Len(built[2])

\* C19: for empty or whitespace-only text build_chunks returns an empty list
\* without calling the splitter and build_single_chunk raises; for other text
\* build_single_chunk returns one chunk, chunk_index 0, chunk_count 1, with no
\* vector and the trimmed text.
C19_BlankTextBuilders ==
    /\ (bst = "done" /\ bop = "build_chunks" /\ Strip(doc_text) = <<>>)
          => built = <<"return", <<>>>> /\ splitter_calls = 0
    /\ (bst = "done" /\ bop = "build_single_chunk" /\ Strip(doc_text) = <<>>)
          => built = <<"raise", "ValueError">>
    /\ (bst = "done" /\ bop = "build_single_chunk" /\ Strip(doc_text) # <<>>)
          => /\ built[1] = "return"
             /\ Len(built[2]) = 1
             /\ built[2][1].chunk_index = 0
             /\ built[2][1].chunk_count = 1
             /\ built[2][1].vector = <<>>
             /\ built[2][1].text = Strip(doc_text)

\* build_single_chunk was called with a whitespace-only text and raised.
C19_Witness ==
    /\ bop = "build_single_chunk" /\ bst = "done"
    /\ doc_text = <<" ">>
    /\ built[1] = "raise"

\* C20: split returns an empty list for empty or whitespace-only text; every
\* segment it returns is non-empty after stripping, and the segments are the
\* library's non-blank ones in their order.
NthOf(S, k) == CHOOSE i \in S : Cardinality({j \in S : j < i}) = k - 1
C20_SplitSegments ==
    split_ret # <<"None">> =>
      /\ Strip(doc_text) = <<>> => split_ret = <<"return", <<>>>>
      /\ split_ret[1] = "return" =>
            \A k \in DOMAIN split_ret[2] : Strip(split_ret[2][k]) # <<>>
      /\ (split_ret[1] = "return" /\ raw[1] = "return") =>
            LET kept == {k \in DOMAIN raw[2] : Strip(raw[2][k]) # <<>>}
            IN  /\ Len(split_ret[2]) = Cardinality(kept)
                /\ \A j \in DOMAIN split_ret[2] :
                      split_ret[2][j] = raw[2][NthOf(kept, j)]

\* A blank segment between two different non-blank ones was dropped.
C20_Witness ==
    /\ bop = "split" /\ bst = "done"
    /\ raw = <<"return", << <<"a">>, <<" ">>, <<" ", "b", " ">> >> >>
    /\ split_ret = <<"return", << <<"a">>, <<" ", "b", " ">> >> >>

\* C21: in every state of a run processed_chunks + failed_chunks <=
\* total_chunks, and no chunk is counted more than once (each append to the
\* output goes with one increment of one of the two counters).
C21_CountersWithinTotal ==
    /\ total_stats.processed_chunks + total_stats.failed_chunks
          <= total_stats.total_chunks
    /\ \A i \in DOMAIN chunks : Occurrences(i) <= 1

\* C22: the counters of the shared accumulator are, in every state and for
\* every order in which groups complete, the sums of the increments the
\* handlers have applied: per handler that ran its zip loop one chunk, its
\* tokens and its characters for each zipped pair, and per handler that ran the
\* except branch one failed chunk for each chunk of its group.
Applied == {g \in Groups : group_result[g] \in {"ok", "hook_raised"}}
AppliedOk(i) == \E g \in Applied : i \in Members(g) /\ call[i] = "ok"
OkIn(g) == {i \in Members(g) : call[i] = "ok"}
SumOverChunks(f(_)) == SumSeq([i \in 1..Len(chunks) |-> f(i)])
C22_NoLostUpdates ==
    /\ total_stats.processed_chunks
          = SumOverChunks(LAMBDA i :
               IF AppliedOk(i) THEN 1 ELSE 0)
    /\ total_stats.total_tokens
          = SumOverChunks(LAMBDA i :
               IF AppliedOk(i)
               THEN ServiceTokens(chunks[i]) ELSE 0)
    /\ total_stats.total_characters
          = SumOverChunks(LAMBDA i :
               IF \E g \in Applied :
                     /\ i \in Members(g)
                     /\ i - Batch(g)[1] < Cardinality(OkIn(g))
               THEN Len(chunks[i]) ELSE 0)
    /\ total_stats.failed_chunks = SizeOfGroups(Raised \cup HookRaised)
    /\ total_stats.total_chunks = Len(chunks)

\* Two groups ran concurrently, the second completed first, and both applied
\* their increments.
C22_Witness ==
    /\ returned
    /\ Cardinality(Applied) = 2
    /\ processed_chunks # <<>> /\ processed_chunks[1] \in Members(2)
    /\ total_stats.processed_chunks = Len(chunks)
    /\ total_stats.total_tokens > 0

\* C23: with a positive batch_size the groups are contiguous runs of
\* batch_size chunks in input order, only the last one possibly shorter, and
\* every chunk is in exactly one group; a chunk's call is issued and its
\* vector written only by the handler of its group, the vector at most once.
Partitioned ==
    batch_size > 0 =>
        /\ \A i \in DOMAIN chunks :
              Cardinality({g \in Groups : i \in Members(g)}) = 1
        /\ \A g \in Groups :
              /\ Len(Batch(g)) >= 1 /\ Len(Batch(g)) <= batch_size
              /\ g < Cardinality(Groups) => Len(Batch(g)) = batch_size
              /\ \A k \in 1..(Len(Batch(g)) - 1) : Batch(g)[k + 1] = Batch(g)[k] + 1
              /\ Batch(g)[1] = (IF g = 1 THEN 1
                                ELSE Batch(g - 1)[Len(Batch(g - 1))] + 1)
        /\ \A i \in DOMAIN chunks : \A g \in Groups :
              i \in Members(g) =>
                  /\ call[i] # "none" => pc[g] # "waiting"
                  /\ vector[i] # EmptyVector => group_result[g] \in {"ok", "hook_raised"}
WrittenByOwnHandlerOnce ==
    \A i \in DOMAIN chunks :
        vector'[i] # vector[i] =>
            /\ vector[i] = EmptyVector
            /\ \E g \in Groups :
                  i \in Members(g) /\ pc[g] = "calling" /\ pc'[g] # "calling"
C23_ContiguousGroups == [](Partitioned) /\ [][WrittenByOwnHandlerOnce]_vars

\* Three chunks in groups of two (sizes 2 and 1), all embedded.
C23_Witness ==
    /\ returned
    /\ Len(chunks) = 3 /\ batch_size = 2
    /\ Len(Batch(1)) = 2 /\ Len(Batch(2)) = 1
    /\ \A i \in DOMAIN chunks : vector[i] # EmptyVector
    /\ total_stats.processed_chunks = 3 /\ total_stats.failed_chunks = 0

\* C24: with delay_between_batches > 0 the handler of every group that
\* completes, successfully or not, sleeps with its slot held before it
\* releases the slot: a handler reaches its end only from the sleep.
C24_SlotHeldForDelay ==
    [][\A g \in Groups :
          (delay_between_batches > 0 /\ pc[g] # "done" /\ pc'[g] = "done")
             => pc[g] = "sleeping"]_vars

\* C25: with a progress hook configured, the hook has been invoked once per
\* completed group, failed groups included, each time with the cumulative
\* number of processed chunks and the total; after the run once per group.
Completed == {g \in Groups : pc[g] \in {"sleeping", "done"}}
C25_HookOncePerGroup ==
    (progress_callback /\ aborted = "no") =>
        /\ Len(hook_calls) = Cardinality(Completed)
        /\ returned => Len(hook_calls) = Cardinality(Groups)
        /\ \A k \in DOMAIN hook_calls : hook_calls[k][2] = Len(chunks)

\* C28: with a positive batch_size, the get_embedding calls outstanding at any
\* moment number at most max_concurrent_batches * batch_size, however many
\* chunks the input has.
C28_OutstandingRequestsBound ==
    batch_size > 0 =>
        Cardinality(CallsIn("inflight")) <= max_concurrent_batches * batch_size

\* More chunks than the bound, and the bound is reached.
C28_Witness ==
    /\ Len(chunks) > max_concurrent_batches * batch_size
    /\ batch_size > 1 /\ max_concurrent_batches > 0
    /\ Cardinality(CallsIn("inflight")) = max_concurrent_batches * batch_size

\* C29: the chunks of one group stand in the output as one block, no chunk of
\* another group between them, in their input order.
SameGroup(i, j) == \E g \in Groups : i \in Members(g) /\ j \in Members(g)
C29_GroupsNotInterleaved ==
    \A p, q \in DOMAIN processed_chunks :
        (p < q /\ SameGroup(processed_chunks[p], processed_chunks[q])) =>
            /\ processed_chunks[p] <= processed_chunks[q]
            /\ \A r \in p..q : SameGroup(processed_chunks[p], processed_chunks[r])

\* C30: while the hook returns normally, over its successive invocations the
\* completed count does not decrease and never exceeds the total, and the
\* total is the number of input chunks.
C30_HookArgumentsMonotone ==
    HookRaised = {} =>
        \A k \in DOMAIN hook_calls :
            /\ hook_calls[k][1] <= hook_calls[k][2]
            /\ hook_calls[k][2] = Len(chunks)
            /\ k > 1 => hook_calls[k - 1][1] <= hook_calls[k][1]

\* Two invocations in a run of three chunks, the count growing from 2 to 3.
C30_Witness ==
    /\ returned /\ progress_callback /\ HookRaised = {}
    /\ Len(chunks) = 3
    /\ hook_calls = << <<2, 3>>, <<3, 3>> >>

\* C26: the wait after failed attempt k (from 0) is 2^k; a wait is taken only
\* when another attempt follows, so none after the final attempt.
C26_ExponentialBackoff ==
    /\ \A j \in DOMAIN sleeps : sleeps[j] = 2 ^ (j - 1)
    /\ Len(sleeps) <= Len(responses)
    /\ \A j \in DOMAIN sleeps : responses[j] # "ok"
    /\ epc = "backoff" => Len(sleeps) = Len(responses) /\ Len(responses) < max_retries
    /\ epc = "request" => Len(sleeps) = Len(responses)
    /\ (epc \in {"raised", "returned"} /\ responses # <<>>)
          => Len(sleeps) = Len(responses) - 1

\* Three failed attempts: waits of 1 and 2, none after the third.
C26_Witness ==
    /\ max_retries = 3
    /\ Len(responses) = 3
    /\ epc = "raised"
    /\ sleeps = <<1, 2>>

\* C27: a 200 response with a malformed body ends get_embedding at once with
\* an error: it is the last request, and answered so on the first request, one
\* request is sent and no backoff sleep taken.
C27_MalformedNotRetried ==
    \A k \in DOMAIN responses :
        responses[k] = "malformed" =>
            /\ epc = "raised"
            /\ RequestsSent = k
            /\ k = 1 => sleeps = <<>>

\* C31: process_chunks has at most one batch call outstanding, handles the
\* batches in input order, and returns the input chunks in their input order,
\* as many as it was given, with processed_chunks + failed_chunks the input
\* length, whatever calls fail.
BatchesCalling == {g \in Groups : \E i \in Members(g) : call[i] = "inflight"}
C31_SequentialKeepsOrder ==
    /\ Cardinality(BatchesCalling) <= 1
    /\ \A k \in 1..(Len(updated_chunks) - 1) :
          updated_chunks[k] < updated_chunks[k + 1]
    /\ spc = "returned" =>
          /\ updated_chunks = [k \in 1..Len(chunks) |-> k]
          /\ seq_stats.processed_chunks + seq_stats.failed_chunks = Len(chunks)

\* C32: a space whose extraction fails does not stop get_all_pages: every
\* configured space is extracted, and the result is the concatenation, in
\* the order of space_keys, of the complete page lists of the spaces that
\* succeeded, with nothing from a failed space (stated for max_retries >= 1:
\* with 0 no request is ever sent).
RECURSIVE Flatten(_)
Flatten(ss) == IF ss = <<>> THEN <<>> ELSE Head(ss) \o Flatten(Tail(ss))
CompleteList(key) == [j \in 1..source_pages[key] |-> <<key, j>>]
FailedSpace(k) == \E f \in DOMAIN failed_spaces : failed_spaces[f] = k
Contribution(k) ==
    IF FailedSpace(k) \/ Strip(space_keys[k]) = <<>> THEN <<>>
    ELSE CompleteList(space_keys[k])
SpacesDone == Min(space_idx - 1, Len(space_keys))
C32_FailuresPerSpace ==
    pag_max_retries >= 1 =>
        /\ all_pages = Flatten([k \in 1..SpacesDone |-> Contribution(k)])
        /\ \A k \in DOMAIN space_keys :
              /\ FailedSpace(k) = (space_ret[k][1] = "raise")
              /\ k <= SpacesDone => space_ret[k] # <<"None">>
        /\ cpc = "returned" => SpacesDone = Len(space_keys)

\* The first space failed after a full batch had been fetched, the second
\* was extracted, and the result is the second space's pages.
C32_Witness ==
    /\ cpc = "returned"
    /\ space_keys = <<KeyA, KeyB>>
    /\ failed_spaces = <<1>>
    /\ Len(offsets[1]) = 2
    /\ source_pages[KeyB] >= 1
    /\ all_pages = CompleteList(KeyB)

\* C33: get_space_pages fetches at the starts 0, limit, 2*limit, ..., each
\* once apart from the retries, of which an offset gets at most max_retries
\* attempts; it stops at the first batch that is empty or shorter than limit
\* and returns the fetched pages in fetch order; and it terminates.
BatchAt(k, j) == SourceBatch(space_keys[k], offsets[k][j], limit)
SpacePagination ==
    /\ (cpc = "fetch" /\ pag_max_retries >= 1) => fetch_attempt + 1 <= pag_max_retries
    /\ (cpc = "loop" /\ space_idx - 1 \in DOMAIN space_keys
           /\ space_ret[space_idx - 1][1] = "raise")
          => fetch_attempt = pag_max_retries - 1
    /\ \A k \in DOMAIN space_keys :
          /\ \A j \in DOMAIN offsets[k] : offsets[k][j] = (j - 1) * limit
          /\ \A j \in 1..(Len(offsets[k]) - 1) : Len(BatchAt(k, j)) = limit
          /\ (space_ret[k][1] = "return" /\ offsets[k] # <<>>) =>
                /\ Len(BatchAt(k, Len(offsets[k]))) < limit
                /\ space_ret[k][2]
                      = Flatten([j \in DOMAIN offsets[k] |-> BatchAt(k, j)])
          /\ (space_ret[k][1] = "return" /\ offsets[k] = <<>>) =>
                space_ret[k][2] = <<>>
C33_PaginationTerminates == [](SpacePagination) /\ <>(cpc = "returned")

\* A space of three pages fetched with limit 2: a full batch at 0, a short
\* one at 2.
C33_Witness ==
    /\ cpc = "returned"
    /\ limit = 2
    /\ \E k \in DOMAIN space_keys :
          /\ offsets[k] = <<0, 2>>
          /\ space_ret[k] = <<"return", CompleteList(space_keys[k])>>
          /\ Len(space_ret[k][2]) = 3

\* C34: in the payload produced for a chunk no standard field is overwritten:
\* what chunk_to_payload returns, and what upsert_chunk sends to the store,
\* holds for every standard key the value derived from the chunk (the key
\* being left out when that value is None).
C34_StandardFieldsKept ==
    store_pc # "start" /\ store_op # "none" =>
        \A k \in StandardKeys :
            IF store_chunk.fields[k] = "None"
            THEN k \notin DOMAIN store_payload
            ELSE k \in DOMAIN store_payload
                   /\ store_payload[k] = store_chunk.fields[k]

====
